---- MODULE Spec2Model ----
(***************************************************************************)
(* Package intake, delivery confirmation and ticket status handling of the *)
(* package-management back office (packages/views.py, serializers.py,      *)
(* models.py; users/models.py, users/views.py).                            *)
(*                                                                         *)
(* Money is counted in hundredths (DecimalField decimal_places=2), NULL    *)
(* foreign keys and absent payload fields are the string "None".           *)
(***************************************************************************)
EXTENDS Integers, FiniteSets, Sequences, TLC

VARIABLES users, statuses, packages, tickets, pkgSeq, tktSeq, useTz, last, inflight,
          lookups

vars == <<users, statuses, packages, tickets, pkgSeq, tktSeq, useTz, last, inflight,
          lookups>>

None == "None"

(* ------------------------------ bounds -------------------------------- *)

\* Package rows ever inserted (ids 1..MaxPackages).
MaxPackages == 2

\* Package rows ever inserted when every endpoint is exercised.
MaxLifePackages == 1

\* Ticket rows ever inserted (ids 1..MaxTickets).
MaxTickets == 2

\* Clock readings and departure times range over 0..MaxTime.
MaxTime == 2

(* --------------------------- reference data --------------------------- *)

Companies == {"c1", "c2"}

Branches == {"b1", "b2", "b3"}

\* Branch.company
BranchCompany(b) ==
    CASE b \in {"b1", "b2"} -> "c1" [] b = "b3" -> "c2" [] OTHER -> None

Drivers == {"d1", "d2", "d3"}

\* Driver.company
DriverCompany(d) ==
    CASE d \in {"d1", "d2"} -> "c1" [] d = "d3" -> "c2" [] OTHER -> None

Vehicles == {"v1", "v2", "v3"}

\* Vehicle.company
VehicleCompany(v) ==
    CASE v \in {"v1", "v2"} -> "c1" [] v = "v3" -> "c2" [] OTHER -> None

\* Vehicle.driver
VehicleDriver(v) ==
    CASE v = "v1" -> "d1" [] v = "v2" -> "d2" [] v = "v3" -> "d3" [] OTHER -> None

UserIds == {"a1", "ba", "ca", "sa", "nr", "ux"}

NoUser == [role |-> "absent", company |-> None, branch |-> None, is_superuser |-> FALSE]

User(r, c, b) == [role |-> r, company |-> c, branch |-> b, is_superuser |-> FALSE]

\* The accounts present at start: one agent, one admin of each kind, one
\* account without a role; "ux" is not registered yet.
SeedUsers ==
    [u \in UserIds |->
        CASE u = "a1" -> User("agent", "c1", "b1")
          [] u = "ba" -> User("branch admin", "c1", "b1")
          [] u = "ca" -> User("company admin", "c1", None)
          [] u = "sa" -> User("system admin", None, None)
          [] u = "nr" -> User(None, None, None)
          [] OTHER    -> NoUser]

IsAuthenticated(u) == users[u].role # "absent"

IsAgent(u) == users[u].role = "agent"

IsSystemAdmin(u) == users[u].role = "system admin"

(* ------------------------------ rows ---------------------------------- *)

NoRow == [id |-> 0]

PkgIds == 1..MaxPackages

TktIds == 1..MaxTickets

Times == 0..MaxTime

TrackingNumbers == {"PKG-A", "PKG-B"}

TicketCodes == {"TCK-A", "TCK-B"}

LivePkgs == {i \in PkgIds : packages[i] # NoRow}

LiveTkts == {i \in TktIds : tickets[i] # NoRow}

\* Ticket.objects.filter(package=p)
TicketsOf(p) == {t \in LiveTkts : tickets[t].package = p}

(* ----------------------------- responses ------------------------------ *)

Resp(code, keys) == [code |-> code, keys |-> keys]

Created == Resp(201, {})

Ok == Resp(200, {})

NoContent == Resp(204, {})

Forbidden == Resp(403, {})

NotFound == Resp(404, {})

ServerError == Resp(500, {})

InvalidInput(keys) == Resp(400, keys)

\* The request has not been answered yet.
NoResponse == Resp(0, {})

(* ------------------------------ intake -------------------------------- *)

\* A shipping_fee in a payload is <<>> (absent) or <<fee>>.

\* A departure_time payload: absent, not ISO text, or an ISO timestamp for
\* instant t, with ("2030-01-01T10:00:00Z") or without an offset.
Departure(kind, t, aware) == [kind |-> kind, t |-> t, aware |-> aware]

BaseRequest ==
    [contacts           |-> "ok",
     destination_branch |-> "b2",
     driver             |-> "d1",
     vehicle            |-> "v1",
     departure_time     |-> Departure("iso", MaxTime, TRUE),
     value              |-> 100000,
     shipping_fee       |-> <<>>,
     receiver_agent     |-> None]

Values == {-15, 15, 25, 100000}

Departures ==
    {Departure("missing", 0, FALSE), Departure("garbage", 0, FALSE)}
        \cup {Departure("iso", t, a) : t \in Times, a \in BOOLEAN}

\* The payloads tried: the scenario request of the specification with one
\* field varied at a time, the fee variations on every value, and one that
\* names a receiver_agent (a writable field of PackageSerializer).
Requests ==
    {[BaseRequest EXCEPT !.contacts = c] : c \in {"ok", "no_sender", "no_receiver"}}
        \cup {[BaseRequest EXCEPT !.destination_branch = b] : b \in Branches \cup {None}}
        \cup {[BaseRequest EXCEPT !.driver = d] : d \in Drivers \cup {None}}
        \cup {[BaseRequest EXCEPT !.vehicle = v] : v \in Vehicles \cup {None}}
        \cup {[BaseRequest EXCEPT !.departure_time = d] : d \in Departures}
        \cup {[BaseRequest EXCEPT !.value = v, !.shipping_fee = f] :
                 v \in Values, f \in {<<>>, <<7>>}}
        \cup {[BaseRequest EXCEPT !.receiver_agent = r] : r \in {"ba"}}

Abs(n) == IF n < 0 THEN -n ELSE n

\* round(value * Decimal('0.10'), 2) on hundredths: Decimal.__round__ rounds
\* half to even, on the magnitude.
ShippingFee(value) ==
    LET q == Abs(value) \div 10
        r == Abs(value) % 10
        m == IF r < 5 THEN q
             ELSE IF r > 5 THEN q + 1
             ELSE IF q % 2 = 0 THEN q ELSE q + 1
    IN  IF value < 0 THEN -m ELSE m

\* PackageStatus.objects.get_or_create(name=...): "multiple" stands for
\* MultipleObjectsReturned.
GetOrCreateOutcome(name) ==
    IF statuses[name] > 1 THEN "multiple" ELSE "ok"

GetOrCreateRows(name) ==
    IF statuses[name] = 0 THEN [statuses EXCEPT ![name] = 1] ELSE statuses

\* What the CharField Package.status stores when it is assigned a
\* PackageStatus record: str(record), "PackageStatus object (<pk>)". The
\* record is named here by its name where Django prints its primary key.
StatusText(name) == "PackageStatus object (" \o name \o ")"

\* serializer.is_valid(): the keys of the errors the declared fields raise.
SerializerErrors(req) ==
    (IF req.destination_branch = None THEN {"destination_branch"} ELSE {})
        \cup (IF req.departure_time.kind = "garbage" THEN {"departure_time"} ELSE {})

\* timezone.now() is aware exactly when settings.USE_TZ; comparing an aware
\* with a naive datetime raises TypeError.
ClockMismatch(dep) == dep.aware # useTz

\* The checks of perform_create before anything is written, in order: the
\* response of the first that fails, or Created when all pass.
IntakeChecks(u, req, now) ==
    IF ~IsAgent(u) THEN Forbidden
    ELSE IF SerializerErrors(req) # {} THEN InvalidInput(SerializerErrors(req))
    ELSE IF req.contacts = "no_sender" THEN InvalidInput({"sender_details"})
    ELSE IF req.contacts = "no_receiver" THEN InvalidInput({"receiver_details"})
    ELSE IF req.destination_branch = None THEN InvalidInput({"destination_branch"})
    ELSE IF BranchCompany(req.destination_branch) # users[u].company
        THEN InvalidInput({"destination_branch"})
    ELSE IF req.driver = None THEN InvalidInput({"driver"})
    ELSE IF DriverCompany(req.driver) # users[u].company THEN InvalidInput({"driver"})
    ELSE IF req.vehicle = None THEN InvalidInput({"vehicle"})
    ELSE IF VehicleCompany(req.vehicle) # users[u].company THEN InvalidInput({})
    ELSE IF req.departure_time.kind # "iso" THEN InvalidInput({"departure_time"})
    ELSE IF ClockMismatch(req.departure_time) THEN ServerError
    ELSE IF req.departure_time.t <= now THEN InvalidInput({"departure_time"})
    ELSE Created

\* NewPackage with shipping_fee left writable: the payload's fee, when there
\* is one, is stored.
NewPackageClientFee(u, req, id, tn) ==
    [id                 |-> id,
     tracking_number    |-> tn,
     value              |-> req.value,
     shipping_fee       |-> IF req.shipping_fee = <<>> THEN ShippingFee(req.value)
                            ELSE req.shipping_fee[1],
     status             |-> StatusText("Pending"),
     sender_agent       |-> u,
     receiver_agent     |-> req.receiver_agent,
     origin_branch      |-> users[u].branch,
     destination_branch |-> req.destination_branch]

\* The Package row serializer.save(...) inserts.
NewPackage(u, req, id, tn) ==
    [id                 |-> id,
     tracking_number    |-> tn,
     value              |-> req.value,
     shipping_fee       |-> ShippingFee(req.value),
     status             |-> StatusText("Pending"),
     sender_agent       |-> u,
     receiver_agent     |-> req.receiver_agent,
     origin_branch      |-> users[u].branch,
     destination_branch |-> req.destination_branch]

\* The Ticket row Ticket.objects.create(...) inserts.
NewTicket(u, req, id, pkg, tc) ==
    [id             |-> id,
     ticket_code    |-> tc,
     package        |-> pkg,
     driver         |-> req.driver,
     vehicle        |-> req.vehicle,
     branch         |-> users[u].branch,
     company        |-> users[u].company,
     departure_time |-> req.departure_time.t,
     amount_paid    |-> ShippingFee(req.value),
     status         |-> "sent"]

\* PackageInsertFails without unique=True on tracking_number.
PackageInsertNoUnique(u, tn) == users[u].branch = None

\* Package.tracking_number unique, origin_branch NOT NULL.
PackageInsertFails(u, tn) ==
    \/ \E p \in LivePkgs : packages[p].tracking_number = tn
    \/ users[u].branch = None

\* Ticket.ticket_code unique; branch and company NOT NULL.
TicketInsertFails(u, tc) ==
    \/ \E t \in LiveTkts : tickets[t].ticket_code = tc
    \/ users[u].company = None

\* A request without a body (DELETE, mark_delivered) and the record kept
\* before any request was made.
NoBody == [body |-> None]

\* What the last request was and what it was answered: the endpoint, the
\* requester, the payload, the clock reading, the response, the id of the
\* row addressed or created, the codes uuid4 generated for it (<<>> when
\* none were, else <<tracking_number, ticket_code>>) and the ids of the rows
\* a list request returned.
Last(op, u, req, now, result, pk) ==
    [op |-> op, user |-> u, req |-> req, now |-> now, result |-> result, pk |-> pk,
     codes |-> <<>>, rows |-> {}]

\* Last for a list request answered with the rows of ids.
LastList(op, u, ids) ==
    [Last(op, u, NoBody, 0, Ok, 0) EXCEPT !.rows = ids]

\* Last for a request that reached the uuid4 calls of perform_create.
LastIntake(u, req, now, result, pk, tn, tc) ==
    [Last("intake", u, req, now, result, pk) EXCEPT !.codes = <<tn, tc>>]

\* The two inserts of perform_create, the PackageStatus row in hand; tn and
\* tc are the codes uuid4 yields.
IntakeInserts(u, req, now, tn, tc) ==
    LET pid == pkgSeq + 1
        tid == tktSeq + 1
    IN  IF PackageInsertFails(u, tn)
        THEN /\ last' = LastIntake(u, req, now, InvalidInput({"error"}), 0, tn, tc)
             /\ UNCHANGED <<packages, tickets, pkgSeq, tktSeq>>
        ELSE IF TicketInsertFails(u, tc)
        THEN /\ packages' = [packages EXCEPT ![pid] = NewPackage(u, req, pid, tn)]
             /\ pkgSeq' = pid
             /\ last' = LastIntake(u, req, now, InvalidInput({"error"}), pid, tn, tc)
             /\ UNCHANGED <<tickets, tktSeq>>
        ELSE /\ packages' = [packages EXCEPT ![pid] = NewPackage(u, req, pid, tn)]
             /\ tickets' = [tickets EXCEPT ![tid] = NewTicket(u, req, tid, pid, tc)]
             /\ pkgSeq' = pid
             /\ tktSeq' = tid
             /\ last' = LastIntake(u, req, now, Created, pid, tn, tc)

\* The writes of perform_create once every check has passed, the
\* get_or_create of the "Pending" row first.
IntakeWrites(u, req, now, tn, tc) ==
    IF GetOrCreateOutcome("Pending") = "multiple"
    THEN /\ last' = LastIntake(u, req, now, InvalidInput({"error"}), 0, tn, tc)
         /\ UNCHANGED <<statuses, packages, tickets, pkgSeq, tktSeq>>
    ELSE /\ statuses' = GetOrCreateRows("Pending")
         /\ IntakeInserts(u, req, now, tn, tc)

\* POST /packages/ by u with payload req; now is the clock reading at the
\* departure check.
Intake(u, req, now) ==
    /\ IsAuthenticated(u)
    /\ IF IntakeChecks(u, req, now) # Created
       THEN /\ last' = Last("intake", u, req, now, IntakeChecks(u, req, now), 0)
            /\ UNCHANGED <<statuses, packages, tickets, pkgSeq, tktSeq>>
       ELSE \E tn \in TrackingNumbers, tc \in TicketCodes :
                IntakeWrites(u, req, now, tn, tc)
    /\ UNCHANGED <<users, useTz, inflight, lookups>>

(* --------------------------- registration ----------------------------- *)

\* POST /users/register/ (RegisterView, system admins only): the payload
\* names role, company and branch freely.
Register(admin, u, role, company, branch) ==
    /\ IsAuthenticated(admin)
    /\ IsSystemAdmin(admin)
    /\ users[u] = NoUser
    /\ users' = [users EXCEPT ![u] = User(role, company, branch)]
    /\ last' = Last("register", admin, NoBody, 0, Created, 0)
    /\ UNCHANGED <<statuses, packages, tickets, pkgSeq, tktSeq, useTz, inflight, lookups>>

(* ------------------------- package endpoints -------------------------- *)

\* PackageViewSet.get_queryset: the ids of the Package rows u may address.
VisiblePackages(u) ==
    IF ~IsAuthenticated(u) THEN {}
    ELSE IF users[u].role = "agent"
    THEN {p \in LivePkgs : \/ packages[p].sender_agent = u
                           \/ packages[p].receiver_agent = u
                           \/ packages[p].destination_branch = users[u].branch}
    ELSE IF users[u].role = "branch admin"
    THEN {p \in LivePkgs : \/ packages[p].origin_branch = users[u].branch
                           \/ packages[p].destination_branch = users[u].branch}
    ELSE IF users[u].role = "company admin"
    THEN {p \in LivePkgs :
             \/ BranchCompany(packages[p].origin_branch) = users[u].company
             \/ BranchCompany(packages[p].destination_branch) = users[u].company}
    ELSE IF users[u].role = "system admin" THEN LivePkgs
    ELSE {}

\* GET /packages/
ListPackages(u) ==
    /\ IsAuthenticated(u)
    /\ last' = LastList("package_list", u, VisiblePackages(u))
    /\ UNCHANGED <<users, statuses, packages, tickets, pkgSeq, tktSeq, useTz, inflight, lookups>>

\* A PATCH payload for a Package: destination_branch (None when absent),
\* value and receiver_agent (<<>> when absent, else <<new value>>).
PackagePatch(dest, value, receiver) ==
    [destination_branch |-> dest, value |-> value, receiver_agent |-> receiver]

\* ModelSerializer.update: the writable fields present in the payload are
\* assigned; the read_only_fields are left as they are.
PatchedPackage(row, patch) ==
    [row EXCEPT
        !.destination_branch =
            IF patch.destination_branch = None THEN @ ELSE patch.destination_branch,
        !.value = IF patch.value = <<>> THEN @ ELSE patch.value[1],
        !.receiver_agent =
            IF patch.receiver_agent = <<>> THEN @ ELSE patch.receiver_agent[1]]

\* serializer.is_valid() on update: a receiver_agent must name an existing
\* user (PrimaryKeyRelatedField).
PatchErrors(patch) ==
    IF patch.receiver_agent # <<>> /\ ~IsAuthenticated(patch.receiver_agent[1])
    THEN {"receiver_agent"} ELSE {}

\* PUT/PATCH /packages/{pk}/
PackageUpdate(u, pk, patch) ==
    /\ IsAuthenticated(u)
    /\ IF ~IsAgent(u)
       THEN /\ last' = Last("package_update", u, patch, 0, Forbidden, pk)
            /\ UNCHANGED packages
       ELSE IF pk \notin VisiblePackages(u)
       THEN /\ last' = Last("package_update", u, patch, 0, NotFound, pk)
            /\ UNCHANGED packages
       ELSE IF PatchErrors(patch) # {}
       THEN /\ last' = Last("package_update", u, patch, 0,
                            InvalidInput(PatchErrors(patch)), pk)
            /\ UNCHANGED packages
       ELSE /\ packages' = [packages EXCEPT ![pk] = PatchedPackage(@, patch)]
            /\ last' = Last("package_update", u, patch, 0, Ok, pk)
    /\ UNCHANGED <<users, statuses, tickets, pkgSeq, tktSeq, useTz, inflight, lookups>>

\* No PUT/PATCH request is between its read and its write.
Idle == [pk |-> 0]

\* UpdateModelMixin.update up to get_object(): the request has passed the
\* permission check, read the row of the Package and validated the payload;
\* nothing is written yet.
PackageUpdateBegin(u, pk, patch) ==
    /\ inflight = Idle
    /\ IsAuthenticated(u)
    /\ IsAgent(u)
    /\ pk \in VisiblePackages(u)
    /\ PatchErrors(patch) = {}
    /\ inflight' = [pk |-> pk, user |-> u, patch |-> patch, row |-> packages[pk]]
    /\ last' = Last("package_update_begin", u, patch, 0, NoResponse, pk)
    /\ UNCHANGED <<users, statuses, packages, tickets, pkgSeq, tktSeq, useTz, lookups>>

\* serializer.save() of that request: the payload's fields are set on the
\* instance read earlier and Model.save() writes every column of it (an
\* UPDATE, or an INSERT when the row is gone; the INSERT fails on a
\* tracking_number taken meanwhile).
PackageUpdateEnd ==
    /\ inflight # Idle
    /\ IF /\ packages[inflight.pk] = NoRow
          /\ \E p \in LivePkgs :
                packages[p].tracking_number = inflight.row.tracking_number
       THEN /\ last' = Last("package_update", inflight.user, inflight.patch, 0,
                            ServerError, inflight.pk)
            /\ UNCHANGED packages
       ELSE /\ packages' = [packages EXCEPT
                                ![inflight.pk] = PatchedPackage(inflight.row, inflight.patch)]
            /\ last' = Last("package_update", inflight.user, inflight.patch, 0,
                            Ok, inflight.pk)
    /\ inflight' = Idle
    /\ UNCHANGED <<users, statuses, tickets, pkgSeq, tktSeq, useTz, lookups>>

\* DELETE /packages/{pk}/: the Ticket goes with its Package (on_delete=CASCADE).
PackageDestroy(u, pk) ==
    /\ IsAuthenticated(u)
    /\ IF ~IsAgent(u)
       THEN /\ last' = Last("package_destroy", u, NoBody, 0, Forbidden, pk)
            /\ UNCHANGED <<packages, tickets>>
       ELSE IF pk \notin VisiblePackages(u)
       THEN /\ last' = Last("package_destroy", u, NoBody, 0, NotFound, pk)
            /\ UNCHANGED <<packages, tickets>>
       ELSE /\ packages' = [packages EXCEPT ![pk] = NoRow]
            /\ tickets' = [t \in TktIds |->
                              IF t \in TicketsOf(pk) THEN NoRow ELSE tickets[t]]
            /\ last' = Last("package_destroy", u, NoBody, 0, NoContent, pk)
    /\ UNCHANGED <<users, statuses, pkgSeq, tktSeq, useTz, inflight, lookups>>

\* PackageViewSet.get_agent
GetAgent(u) == IF users[u].role = "agent" THEN u ELSE None

\* MarkDelivered without the destination-branch check of views.py:264-265.
MarkDeliveredAnyBranch(u, pk) ==
    /\ IsAuthenticated(u)
    /\ IF pk \notin VisiblePackages(u)
       THEN /\ last' = Last("mark_delivered", u, NoBody, 0, NotFound, pk)
            /\ UNCHANGED <<statuses, packages, tickets>>
       ELSE IF GetAgent(u) = None
       THEN /\ last' = Last("mark_delivered", u, NoBody, 0, Forbidden, pk)
            /\ UNCHANGED <<statuses, packages, tickets>>
       ELSE /\ statuses' = GetOrCreateRows("Delivered")
            /\ packages' = [packages EXCEPT ![pk].status = StatusText("Delivered"),
                                            ![pk].receiver_agent = GetAgent(u)]
            /\ tickets' = [t \in TktIds |->
                              IF t \in TicketsOf(pk)
                              THEN [tickets[t] EXCEPT !.status = "delivered"]
                              ELSE tickets[t]]
            /\ last' = Last("mark_delivered", u, NoBody, 0, Ok, pk)
    /\ UNCHANGED <<users, pkgSeq, tktSeq, useTz, inflight, lookups>>

\* POST /packages/{pk}/mark_delivered/
MarkDelivered(u, pk) ==
    /\ IsAuthenticated(u)
    /\ IF pk \notin VisiblePackages(u)
       THEN /\ last' = Last("mark_delivered", u, NoBody, 0, NotFound, pk)
            /\ UNCHANGED <<statuses, packages, tickets>>
       ELSE IF GetAgent(u) = None
       THEN /\ last' = Last("mark_delivered", u, NoBody, 0, Forbidden, pk)
            /\ UNCHANGED <<statuses, packages, tickets>>
       ELSE IF packages[pk].destination_branch # users[u].branch
       THEN /\ last' = Last("mark_delivered", u, NoBody, 0, Forbidden, pk)
            /\ UNCHANGED <<statuses, packages, tickets>>
       ELSE IF GetOrCreateOutcome("Delivered") = "multiple"
       THEN /\ last' = Last("mark_delivered", u, NoBody, 0, ServerError, pk)
            /\ UNCHANGED <<statuses, packages, tickets>>
       ELSE /\ statuses' = GetOrCreateRows("Delivered")
            /\ packages' = [packages EXCEPT ![pk].status = StatusText("Delivered"),
                                            ![pk].receiver_agent = GetAgent(u)]
            /\ tickets' = [t \in TktIds |->
                              IF t \in TicketsOf(pk)
                              THEN [tickets[t] EXCEPT !.status = "delivered"]
                              ELSE tickets[t]]
            /\ last' = Last("mark_delivered", u, NoBody, 0, Ok, pk)
    /\ UNCHANGED <<users, pkgSeq, tktSeq, useTz, inflight, lookups>>

(* ------------------- get_or_create, step by step ---------------------- *)

\* The requests that can be inside a get_or_create at the same time.
Workers == {1, 2}

NoLookup == [op |-> None]

InsideIntake == {w \in Workers : lookups[w].op = "intake"}

\* QuerySet.get_or_create after a SELECT that found no row: the INSERT.
\* PackageStatus.name carries no unique constraint (models.py:43-46), so
\* the INSERT succeeds whatever rows are there by then.
CreateAfterLookup(name, found) ==
    IF found THEN statuses ELSE [statuses EXCEPT ![name] = statuses[name] + 1]

\* POST /packages/ up to the SELECT of get_or_create(name="Pending"):
\* every check has passed and the tracking number is drawn. More than one
\* row ends the request there (MultipleObjectsReturned, turned into a
\* 400 by the handler's except clause); otherwise the request remembers
\* whether it found the row.
IntakeLookup(w, u, req, now) ==
    /\ lookups[w] = NoLookup
    /\ IsAuthenticated(u)
    /\ IntakeChecks(u, req, now) = Created
    /\ \E tn \in TrackingNumbers, tc \in TicketCodes :
          IF GetOrCreateOutcome("Pending") = "multiple"
          THEN /\ last' = LastIntake(u, req, now, InvalidInput({"error"}), 0, tn, tc)
               /\ UNCHANGED lookups
          ELSE /\ lookups' = [lookups EXCEPT ![w] =
                                 [op |-> "intake", user |-> u, req |-> req, now |-> now,
                                  tn |-> tn, tc |-> tc,
                                  found |-> statuses["Pending"] = 1]]
               /\ last' = Last("intake_lookup", u, req, now, NoResponse, 0)
    /\ UNCHANGED <<users, statuses, packages, tickets, pkgSeq, tktSeq, useTz, inflight>>

\* The rest of that request: the INSERT of the "Pending" row when the
\* SELECT found none, then the inserts of the Package and the Ticket.
IntakeCreate(w) ==
    /\ lookups[w].op = "intake"
    /\ statuses' = CreateAfterLookup("Pending", lookups[w].found)
    /\ IntakeInserts(lookups[w].user, lookups[w].req, lookups[w].now,
                     lookups[w].tn, lookups[w].tc)
    /\ lookups' = [lookups EXCEPT ![w] = NoLookup]
    /\ UNCHANGED <<users, useTz, inflight>>

\* POST /packages/{pk}/mark_delivered/ up to the SELECT of
\* get_or_create(name="Delivered"): the Package is read and the caller is
\* an agent of its destination branch. MultipleObjectsReturned is not
\* caught there: a 500.
MarkDeliveredLookup(w, u, pk) ==
    /\ lookups[w] = NoLookup
    /\ IsAuthenticated(u)
    /\ pk \in VisiblePackages(u)
    /\ GetAgent(u) # None
    /\ packages[pk].destination_branch = users[u].branch
    /\ IF GetOrCreateOutcome("Delivered") = "multiple"
       THEN /\ last' = Last("mark_delivered", u, NoBody, 0, ServerError, pk)
            /\ UNCHANGED lookups
       ELSE /\ lookups' = [lookups EXCEPT ![w] =
                              [op |-> "mark_delivered", user |-> u, pk |-> pk,
                               row |-> packages[pk],
                               found |-> statuses["Delivered"] = 1]]
            /\ last' = Last("mark_delivered_lookup", u, NoBody, 0, NoResponse, pk)
    /\ UNCHANGED <<users, statuses, packages, tickets, pkgSeq, tktSeq, useTz, inflight>>

\* The rest of that request: the INSERT of the "Delivered" row when the
\* SELECT found none, package.save() of the instance read earlier (every
\* column; an INSERT when the row is gone, failing on a tracking_number
\* taken meanwhile) and the update of the Ticket.
MarkDeliveredCreate(w) ==
    /\ lookups[w].op = "mark_delivered"
    /\ statuses' = CreateAfterLookup("Delivered", lookups[w].found)
    /\ IF /\ packages[lookups[w].pk] = NoRow
          /\ \E p \in LivePkgs :
                packages[p].tracking_number = lookups[w].row.tracking_number
       THEN /\ last' = Last("mark_delivered", lookups[w].user, NoBody, 0,
                            ServerError, lookups[w].pk)
            /\ UNCHANGED <<packages, tickets>>
       ELSE /\ packages' = [packages EXCEPT ![lookups[w].pk] =
                                [lookups[w].row EXCEPT
                                    !.status = StatusText("Delivered"),
                                    !.receiver_agent = GetAgent(lookups[w].user)]]
            /\ tickets' = [t \in TktIds |->
                              IF t \in TicketsOf(lookups[w].pk)
                              THEN [tickets[t] EXCEPT !.status = "delivered"]
                              ELSE tickets[t]]
            /\ last' = Last("mark_delivered", lookups[w].user, NoBody, 0, Ok,
                            lookups[w].pk)
    /\ lookups' = [lookups EXCEPT ![w] = NoLookup]
    /\ UNCHANGED <<users, pkgSeq, tktSeq, useTz, inflight>>

(* -------------------------- ticket endpoints -------------------------- *)

\* TicketViewSet.get_queryset: the ids of the Ticket rows u may address.
VisibleTickets(u) ==
    IF users[u].is_superuser THEN LiveTkts
    ELSE IF users[u].role = "agent"
    THEN {t \in LiveTkts : tickets[t].company = users[u].company}
    ELSE IF users[u].role = "branch admin"
    THEN {t \in LiveTkts : tickets[t].branch = users[u].branch}
    ELSE IF users[u].role = "company admin"
    THEN {t \in LiveTkts : tickets[t].company = users[u].company}
    ELSE {}

\* GET /tickets/
ListTickets(u) ==
    /\ IsAuthenticated(u)
    /\ last' = LastList("ticket_list", u, VisibleTickets(u))
    /\ UNCHANGED <<users, statuses, packages, tickets, pkgSeq, tktSeq, useTz, inflight, lookups>>

\* A POST payload for a Ticket; status is read-only and takes the model's
\* default.
TicketPayload(code, pk, dep) ==
    [id             |-> 0,
     ticket_code    |-> code,
     package        |-> pk,
     driver         |-> "d1",
     vehicle        |-> "v1",
     branch         |-> "b1",
     company        |-> "c1",
     departure_time |-> dep,
     amount_paid    |-> 0,
     status         |-> "pending"]

\* TicketSerializer.is_valid on create: the keys of the errors.
TicketCreateErrors(data, now) ==
    (IF \E t \in LiveTkts : tickets[t].ticket_code = data.ticket_code
        THEN {"ticket_code"} ELSE {})
        \cup (IF data.package \notin LivePkgs \/ TicketsOf(data.package) # {}
                 THEN {"package"} ELSE {})
        \cup (IF data.departure_time < now THEN {"departure_time"} ELSE {})

\* POST /tickets/
TicketCreate(u, data, now) ==
    /\ IsAuthenticated(u)
    /\ IF TicketCreateErrors(data, now) # {}
       THEN /\ last' = Last("ticket_create", u, data, now,
                            InvalidInput(TicketCreateErrors(data, now)), 0)
            /\ UNCHANGED <<tickets, tktSeq>>
       ELSE /\ tickets' = [tickets EXCEPT ![tktSeq + 1] = [data EXCEPT !.id = tktSeq + 1]]
            /\ tktSeq' = tktSeq + 1
            /\ last' = Last("ticket_create", u, data, now, Created, tktSeq + 1)
    /\ UNCHANGED <<users, statuses, packages, pkgSeq, useTz, inflight, lookups>>

\* PATCH /tickets/{tk}/ naming another package.
TicketUpdate(u, tk, pk) ==
    /\ IsAuthenticated(u)
    /\ IF tk \notin VisibleTickets(u)
       THEN /\ last' = Last("ticket_update", u, [package |-> pk], 0, NotFound, tk)
            /\ UNCHANGED tickets
       ELSE IF pk \notin LivePkgs \/ TicketsOf(pk) \ {tk} # {}
       THEN /\ last' = Last("ticket_update", u, [package |-> pk], 0, InvalidInput({"package"}), tk)
            /\ UNCHANGED tickets
       ELSE /\ tickets' = [tickets EXCEPT ![tk].package = pk]
            /\ last' = Last("ticket_update", u, [package |-> pk], 0, Ok, tk)
    /\ UNCHANGED <<users, statuses, packages, pkgSeq, tktSeq, useTz, inflight, lookups>>

\* DELETE /tickets/{tk}/
TicketDestroy(u, tk) ==
    /\ IsAuthenticated(u)
    /\ IF tk \notin VisibleTickets(u)
       THEN /\ last' = Last("ticket_destroy", u, NoBody, 0, NotFound, tk)
            /\ UNCHANGED tickets
       ELSE /\ tickets' = [tickets EXCEPT ![tk] = NoRow]
            /\ last' = Last("ticket_destroy", u, NoBody, 0, NoContent, tk)
    /\ UNCHANGED <<users, statuses, packages, pkgSeq, tktSeq, useTz, inflight, lookups>>

\* valid_statuses taken to be all of STATUS_CHOICES.
ValidStatusChoices == {"pending", "sent", "received", "delivered"}

ValidStatuses == {"sent", "received", "delivered"}

\* UpdateTicketStatus that mirrors "delivered" onto the Ticket's Package, as
\* mark_delivered does in the other direction.
UpdateTicketStatusMirrored(u, tk, new_status) ==
    /\ IsAuthenticated(u)
    /\ IF tk \notin VisibleTickets(u)
       THEN /\ last' = Last("update_status", u, [status |-> new_status], 0, NotFound, tk)
            /\ UNCHANGED <<tickets, packages>>
       ELSE IF new_status \notin ValidStatuses
       THEN /\ last' = Last("update_status", u, [status |-> new_status], 0, InvalidInput({"status"}), tk)
            /\ UNCHANGED <<tickets, packages>>
       ELSE /\ tickets' = [tickets EXCEPT ![tk].status = new_status]
            /\ packages' = [p \in PkgIds |->
                               IF p = tickets[tk].package /\ p \in LivePkgs
                                  /\ new_status = "delivered"
                               THEN [packages[p] EXCEPT !.status = StatusText("Delivered")]
                               ELSE packages[p]]
            /\ last' = Last("update_status", u, [status |-> new_status], 0, Ok, tk)
    /\ UNCHANGED <<users, statuses, pkgSeq, tktSeq, useTz, inflight, lookups>>

\* POST /tickets/{tk}/update-status/
UpdateTicketStatus(u, tk, new_status) ==
    /\ IsAuthenticated(u)
    /\ IF tk \notin VisibleTickets(u)
       THEN /\ last' = Last("update_status", u, [status |-> new_status], 0, NotFound, tk)
            /\ UNCHANGED tickets
       ELSE IF new_status \notin ValidStatuses
       THEN /\ last' = Last("update_status", u, [status |-> new_status], 0, InvalidInput({"status"}), tk)
            /\ UNCHANGED tickets
       ELSE /\ tickets' = [tickets EXCEPT ![tk].status = new_status]
            /\ last' = Last("update_status", u, [status |-> new_status], 0, Ok, tk)
    /\ UNCHANGED <<users, statuses, packages, pkgSeq, tktSeq, useTz, inflight, lookups>>

(* --------------------------- specifications --------------------------- *)

StatusNames == {"Pending", "Delivered"}

Init ==
    /\ users = SeedUsers
    /\ statuses = [n \in StatusNames |-> 0]
    /\ packages = [i \in PkgIds |-> NoRow]
    /\ tickets = [i \in TktIds |-> NoRow]
    /\ pkgSeq = 0
    /\ tktSeq = 0
    /\ useTz \in BOOLEAN
    /\ last = Last("none", None, NoBody, 0, Ok, 0)
    /\ inflight = Idle
    /\ lookups = [w \in Workers |-> NoLookup]

IntakeCallers == {"a1", "ux", "ba"}

RegisterAgent ==
    \E b \in {"b2", "b3"} : Register("sa", "ux", "agent", "c1", b)

IntakeStep ==
    /\ pkgSeq < MaxPackages
    /\ tktSeq < MaxTickets
    /\ \E u \in IntakeCallers, req \in Requests, now \in Times :
        Intake(u, req, now)

NextIntake == RegisterAgent \/ IntakeStep

\* Intake alone, over every payload of Requests.
SpecIntake == Init /\ [][NextIntake]_vars

FeeRequests ==
    {[BaseRequest EXCEPT !.value = v, !.shipping_fee = f] :
        v \in Values, f \in {<<>>, <<7>>}}

FeeIntake ==
    /\ pkgSeq < MaxPackages
    /\ tktSeq < MaxTickets
    /\ \E u \in {"a1", "ux"}, req \in FeeRequests : Intake(u, req, 0)

NextFee == FeeIntake \/ RegisterAgent

\* Intake by agents, the declared value and the payload's shipping_fee
\* varied; the clock stands still, the fee being computed from the value
\* alone.
SpecFee == Init /\ [][NextFee]_vars

Callers == {"a1", "ux", "ba"}

LifeRequests == {BaseRequest, [BaseRequest EXCEPT !.value = 25]}

Patches ==
    {PackagePatch(b, <<>>, <<>>) : b \in {"b1", "b3"}}
        \cup {PackagePatch(None, <<v>>, <<>>) : v \in {15}}
        \cup {PackagePatch(None, <<>>, <<r>>) : r \in {"ba"}}

StatusPayloads == ValidStatuses \cup {"pending", "canceled", None}

LifeIntake ==
    /\ pkgSeq < MaxLifePackages
    /\ tktSeq < MaxTickets
    /\ \E req \in LifeRequests, now \in {0} : Intake("a1", req, now)

PackageUpdateStep ==
    \E u \in Callers, pk \in PkgIds, patch \in Patches : PackageUpdate(u, pk, patch)

PackageDestroyStep ==
    \E u \in Callers, pk \in PkgIds : PackageDestroy(u, pk)

MarkDeliveredStep ==
    \E u \in Callers, pk \in PkgIds : MarkDelivered(u, pk)

TicketCreateStep ==
    /\ tktSeq < MaxTickets
    /\ \E u \in Callers, code \in TicketCodes, pk \in PkgIds :
        TicketCreate(u, TicketPayload(code, pk, MaxTime), 0)

TicketUpdateStep ==
    \E u \in Callers, tk \in TktIds, pk \in PkgIds : TicketUpdate(u, tk, pk)

TicketDestroyStep ==
    \E u \in Callers, tk \in TktIds : TicketDestroy(u, tk)

UpdateTicketStatusStep ==
    \E u \in Callers, tk \in TktIds, st \in StatusPayloads :
        UpdateTicketStatus(u, tk, st)

Next ==
    \/ RegisterAgent
    \/ LifeIntake
    \/ PackageUpdateStep
    \/ PackageDestroyStep
    \/ MarkDeliveredStep
    \/ TicketCreateStep
    \/ TicketUpdateStep
    \/ TicketDestroyStep
    \/ UpdateTicketStatusStep

\* Every endpoint of PackageViewSet and TicketViewSet.
Spec == Init /\ [][Next]_vars

DeliveryPatches ==
    {PackagePatch(b, <<>>, <<>>) : b \in {"b1", "b3"}}
        \cup {PackagePatch(None, <<>>, <<r>>) : r \in {"ux"}}

DeliveryIntake ==
    /\ pkgSeq < MaxLifePackages
    /\ tktSeq < MaxTickets
    /\ Intake("a1", BaseRequest, 0)

DeliveryPatchStep ==
    \E u \in {"a1", "ux"}, pk \in PkgIds, patch \in DeliveryPatches :
        PackageUpdate(u, pk, patch)

NextDelivery ==
    \/ RegisterAgent
    \/ DeliveryIntake
    \/ DeliveryPatchStep
    \/ MarkDeliveredStep

\* Intake, changes of destination_branch and receiver_agent, and delivery
\* confirmation.
SpecDelivery == Init /\ [][NextDelivery]_vars

PackageUpdateBeginStep ==
    \E u \in {"a1", "ux"}, pk \in PkgIds, patch \in DeliveryPatches :
        PackageUpdateBegin(u, pk, patch)

NextConcurrent ==
    \/ RegisterAgent
    \/ DeliveryIntake
    \/ PackageUpdateBeginStep
    \/ PackageUpdateEnd
    \/ MarkDeliveredStep
    \/ PackageDestroyStep

\* A PUT/PATCH of a Package whose read and write are separate steps, with
\* intake, delivery confirmation and deletion running in between.
SpecConcurrent == Init /\ [][NextConcurrent]_vars

TrackIntake ==
    /\ pkgSeq < MaxPackages
    /\ tktSeq < MaxTickets
    /\ Intake("a1", BaseRequest, 0)

TrackPatchBegin ==
    \E pk \in PkgIds, patch \in DeliveryPatches : PackageUpdateBegin("a1", pk, patch)

TrackDeliver == \E pk \in PkgIds : MarkDelivered("a1", pk)

TrackDestroy == \E pk \in PkgIds : PackageDestroy("a1", pk)

NextTracking ==
    \/ TrackIntake
    \/ TrackPatchBegin
    \/ PackageUpdateEnd
    \/ TrackDeliver
    \/ TrackDestroy

\* Intakes that may draw the same codes, with every operation on Packages
\* (PUT/PATCH as a read and a write step) running in between.
SpecTracking == Init /\ [][NextTracking]_vars

\* Role names an account may carry: the four the views know, none, and one
\* they do not know.
ScopeRoles == {"agent", "branch admin", "company admin", "system admin", None, "driver"}

\* The accounts "ux" may be: any role, company, branch and superuser flag
\* (User.role, company and branch are independent nullable columns).
ScopeUsers ==
    {[role |-> r, company |-> c, branch |-> b, is_superuser |-> s] :
        r \in ScopeRoles, c \in Companies \cup {None},
        b \in {"b1", "b3", None}, s \in BOOLEAN}

ScopeInit ==
    /\ \E x \in ScopeUsers : users = [SeedUsers EXCEPT !["ux"] = x]
    /\ statuses = [n \in StatusNames |-> 0]
    /\ packages = [i \in PkgIds |-> NoRow]
    /\ tickets = [i \in TktIds |-> NoRow]
    /\ pkgSeq = 0
    /\ tktSeq = 0
    /\ useTz = TRUE
    /\ last = Last("none", None, NoBody, 0, Ok, 0)
    /\ inflight = Idle
    /\ lookups = [w \in Workers |-> NoLookup]

ScopeRequests ==
    {[BaseRequest EXCEPT !.destination_branch = b] : b \in {"b1", "b2"}}
        \cup {[BaseRequest EXCEPT !.destination_branch = "b3",
                                  !.driver = "d3", !.vehicle = "v3"]}

ScopeIntake ==
    /\ pkgSeq < MaxLifePackages
    /\ tktSeq < MaxTickets
    /\ \E u \in {"a1", "ux"}, req \in ScopeRequests : Intake(u, req, 0)

ScopePatch ==
    \E u \in {"a1", "ux"}, pk \in PkgIds, patch \in DeliveryPatches :
        PackageUpdate(u, pk, patch)

ListPackagesStep == \E u \in UserIds : ListPackages(u)

ListTicketsStep == \E u \in UserIds : ListTickets(u)

NextScope ==
    \/ ScopeIntake
    \/ ScopePatch
    \/ ListPackagesStep
    \/ ListTicketsStep

\* The list endpoints, for a requester of every kind over the Packages and
\* Tickets intake and PUT/PATCH produce.
SpecScope == ScopeInit /\ [][NextScope]_vars

NextTicketStatus ==
    \/ RegisterAgent
    \/ TrackIntake
    \/ UpdateTicketStatusStep
    \/ MarkDeliveredStep

\* Intake, the ticket status update and delivery confirmation.
SpecTicketStatus == Init /\ [][NextTicketStatus]_vars

RaceIntakeLookup ==
    /\ pkgSeq + Cardinality(InsideIntake) < MaxPackages
    /\ tktSeq + Cardinality(InsideIntake) < MaxTickets
    /\ \E w \in Workers : IntakeLookup(w, "a1", BaseRequest, 0)

RaceIntakeCreate == \E w \in Workers : IntakeCreate(w)

RaceDeliverLookup ==
    \E w \in Workers, pk \in PkgIds : MarkDeliveredLookup(w, "ux", pk)

RaceDeliverCreate == \E w \in Workers : MarkDeliveredCreate(w)

NextStatusRace ==
    \/ RegisterAgent
    \/ RaceIntakeLookup
    \/ RaceIntakeCreate
    \/ RaceDeliverLookup
    \/ RaceDeliverCreate
    \/ TrackIntake
    \/ MarkDeliveredStep

\* Intake and delivery confirmation with each get_or_create as a SELECT
\* step and an INSERT step, two requests at a time, and the same two
\* operations as single steps in between and afterwards.
SpecStatusRace == Init /\ [][NextStatusRace]_vars

ScopeStatusStep ==
    \E u \in UserIds, tk \in TktIds, st \in {"received", "pending"} :
        UpdateTicketStatus(u, tk, st)

NextTicketScope == ScopeIntake \/ ScopeStatusStep

\* The ticket status update, for a requester of every kind over the
\* Tickets intake produces.
SpecTicketScope == ScopeInit /\ [][NextTicketScope]_vars

(* ------------------------------ claims -------------------------------- *)

RowsUnchanged == packages' = packages /\ tickets' = tickets

NewPkgs == LivePkgs' \ LivePkgs

NewTkts == LiveTkts' \ LiveTkts

\* The company the data model gives an agent: that of the agent's branch.
AgentCompany(u) == BranchCompany(users[u].branch)

\* An agent whose company field agrees with the branch's company.
ConsistentAgent(u) ==
    /\ IsAgent(u)
    /\ users[u].branch # None
    /\ users[u].company = AgentCompany(u)

\* fee is value / 10 rounded to the nearest unit, a tie going to the even one.
IsTenthRounded(fee, value) ==
    /\ Abs(10 * fee - value) <= 5
    /\ Abs(10 * fee - value) = 5 => fee % 2 = 0

\* C1: an intake that fails inside the write phase (the response keyed
\* "error") leaves the Package and Ticket tables as they were.
C1_FailedIntakeLeavesNoRows ==
    [][(last'.op = "intake" /\ last'.result = InvalidInput({"error"}))
          => RowsUnchanged]_vars

\* C2: in every reachable state every Package has exactly one Ticket and
\* every Ticket refers to an existing Package.
C2_TicketIffPackage ==
    /\ \A p \in LivePkgs : Cardinality(TicketsOf(p)) = 1
    /\ \A t \in LiveTkts : tickets[t].package \in LivePkgs

\* C3: every Ticket an intake creates has vehicle.driver = driver, and an
\* intake by an agent naming a vehicle of another driver answers 400 and
\* creates no rows (the timestamp being one the clock comparison accepts).
C3_VehicleOfDriver ==
    [][last'.op = "intake" =>
          /\ \A t \in NewTkts :
                VehicleDriver(tickets'[t].vehicle) = tickets'[t].driver
          /\ ( /\ IsAgent(last'.user)
               /\ last'.req.driver # None
               /\ last'.req.vehicle # None
               /\ VehicleDriver(last'.req.vehicle) # last'.req.driver
               /\ last'.req.departure_time.aware = useTz )
             => (last'.result.code = 400 /\ RowsUnchanged)]_vars

\* C4: the scenario request with a destination_branch of a company other
\* than that of the agent's branch answers 400 keyed destination_branch and
\* creates no rows.
C4_CrossCompanyRejected ==
    [][( /\ last'.op = "intake"
         /\ IsAgent(last'.user)
         /\ users[last'.user].branch # None
         /\ last'.req = [BaseRequest EXCEPT
                            !.destination_branch = last'.req.destination_branch]
         /\ last'.req.destination_branch # None
         /\ BranchCompany(last'.req.destination_branch) # AgentCompany(last'.user)
         /\ last'.req.departure_time.aware = useTz )
          => ( /\ last'.result = InvalidInput({"destination_branch"})
               /\ RowsUnchanged )]_vars

\* C5: in every reachable state every Package's destination branch belongs
\* to the company of its sender's branch.
C5_NoCrossCompanyPackage ==
    \A p \in LivePkgs :
        BranchCompany(packages[p].destination_branch)
            = AgentCompany(packages[p].sender_agent)

\* C6: every Ticket an intake creates has a driver of the company of the
\* sender's branch, and an intake by an agent whose driver is absent or of
\* another company answers 400 and creates no rows.
C6_DriverOfAgentCompany ==
    [][last'.op = "intake" =>
          /\ \A t \in NewTkts :
                DriverCompany(tickets'[t].driver) = AgentCompany(last'.user)
          /\ ( /\ IsAgent(last'.user)
               /\ users[last'.user].branch # None
               /\ \/ last'.req.driver = None
                  \/ DriverCompany(last'.req.driver) # AgentCompany(last'.user)
               /\ last'.req.departure_time.aware = useTz )
             => (last'.result.code = 400 /\ RowsUnchanged)]_vars

\* C7: an intake creates rows only when departure_time is later than the
\* clock reading, and the scenario request of a consistent agent with a
\* departure_time that is absent, unparseable, or not later than the clock
\* reading answers 400 keyed departure_time and creates no rows.
C7_DepartureInFuture ==
    [][last'.op = "intake" =>
          /\ last'.result.code = 201 =>
                ( /\ last'.req.departure_time.kind = "iso"
                  /\ last'.req.departure_time.t > last'.now )
          /\ ( /\ ConsistentAgent(last'.user)
               /\ last'.req = [BaseRequest EXCEPT
                                  !.departure_time = last'.req.departure_time]
               /\ \/ last'.req.departure_time.kind # "iso"
                  \/ last'.req.departure_time.t <= last'.now )
             => ( /\ last'.result = InvalidInput({"departure_time"})
                  /\ RowsUnchanged )]_vars

\* C8: after a successful intake with declared value v >= 0 the created
\* Package carries v and a shipping_fee of v / 10 rounded to two decimals
\* (ties to even), whatever shipping_fee the payload held.
C8_FeeDerived ==
    (last.op = "intake" /\ last.result.code = 201 /\ last.req.value >= 0)
        => /\ last.pk \in LivePkgs
           /\ packages[last.pk].value = last.req.value
           /\ IsTenthRounded(packages[last.pk].shipping_fee, last.req.value)

\* C8 witness: a successful intake of value 0.25 whose payload carried a
\* shipping_fee other than the stored one (0.02, the tie rounded to even).
C8_Witness ==
    /\ last.op = "intake"
    /\ last.result.code = 201
    /\ last.req.value = 25
    /\ last.req.shipping_fee = <<7>>
    /\ packages[last.pk].shipping_fee = 2

\* C9: in every reachable state every Package's shipping_fee is its current
\* declared value / 10 rounded to two decimals.
C9_FeeTracksValue ==
    \A p \in LivePkgs :
        IsTenthRounded(packages[p].shipping_fee, packages[p].value)

\* C10: an intake by an agent with a negative declared value answers 400 and
\* creates no rows, and no Package an intake creates has a negative value or
\* shipping_fee.
C10_NoNegativeValue ==
    [][last'.op = "intake" =>
          /\ \A p \in NewPkgs :
                packages'[p].value >= 0 /\ packages'[p].shipping_fee >= 0
          /\ ( /\ IsAgent(last'.user)
               /\ last'.req.value < 0
               /\ last'.req.departure_time.aware = useTz )
             => (last'.result.code = 400 /\ RowsUnchanged)]_vars

\* C11: a successful intake by agent A creates exactly one Package and one
\* Ticket bound to it, with Package.status Pending, origin_branch A's branch,
\* sender_agent A, receiver_agent unset, Ticket.status "sent", amount_paid
\* the Package's shipping_fee and the Ticket's driver and vehicle those of
\* the request.
C11_IntakeCreatesPair ==
    [][(last'.op = "intake" /\ last'.result.code = 201) =>
          /\ Cardinality(NewPkgs) = 1
          /\ Cardinality(NewTkts) = 1
          /\ \A p \in NewPkgs, t \in NewTkts :
                /\ tickets'[t].package = p
                /\ packages'[p].status = "Pending"
                /\ packages'[p].origin_branch = users[last'.user].branch
                /\ packages'[p].sender_agent = last'.user
                /\ packages'[p].receiver_agent = None
                /\ tickets'[t].status = "sent"
                /\ tickets'[t].amount_paid = packages'[p].shipping_fee
                /\ tickets'[t].driver = last'.req.driver
                /\ tickets'[t].vehicle = last'.req.vehicle]_vars

\* C12: MarkDelivered by an agent at the destination branch of an existing
\* Package succeeds, with or without a Ticket, and a successful MarkDelivered
\* leaves Package.status Delivered, receiver_agent the requester and the
\* status of the Package's Ticket "delivered".
C12_MarkDeliveredEffects ==
    [][last'.op = "mark_delivered" =>
          /\ ( /\ last'.pk \in LivePkgs
               /\ IsAgent(last'.user)
               /\ packages[last'.pk].destination_branch = users[last'.user].branch )
             => last'.result = Ok
          /\ last'.result = Ok =>
                /\ packages'[last'.pk].status = "Delivered"
                /\ packages'[last'.pk].receiver_agent = last'.user
                /\ LiveTkts' = LiveTkts
                /\ \A t \in TicketsOf(last'.pk) :
                      tickets'[t] = [tickets[t] EXCEPT !.status = "delivered"]]_vars

\* C13 as claimed: MarkDelivered on an existing Package by an agent whose
\* branch is not the Package's destination_branch answers Forbidden and
\* leaves the Package and Ticket tables as they were.
C13_WrongBranchForbidden ==
    [][( /\ last'.op = "mark_delivered"
         /\ last'.pk \in LivePkgs
         /\ IsAgent(last'.user)
         /\ users[last'.user].branch # packages[last'.pk].destination_branch )
          => (last'.result = Forbidden /\ RowsUnchanged)]_vars

\* C13 amended: such a call changes nothing and answers Forbidden when the
\* agent is the Package's sender_agent or receiver_agent, NotFound otherwise
\* (the Package is outside the agent's queryset).
C13_WrongBranchRejected ==
    [][( /\ last'.op = "mark_delivered"
         /\ last'.pk \in LivePkgs
         /\ IsAgent(last'.user)
         /\ users[last'.user].branch # packages[last'.pk].destination_branch )
          => /\ RowsUnchanged
             /\ last'.result =
                   IF \/ packages[last'.pk].sender_agent = last'.user
                      \/ packages[last'.pk].receiver_agent = last'.user
                   THEN Forbidden ELSE NotFound]_vars

\* C13 witness: the sender, an agent of another branch than the destination,
\* was answered Forbidden and the Package is still undelivered.
C13_Witness ==
    /\ last.op = "mark_delivered"
    /\ last.result = Forbidden
    /\ last.pk \in LivePkgs
    /\ IsAgent(last.user)
    /\ packages[last.pk].sender_agent = last.user
    /\ users[last.user].branch # packages[last.pk].destination_branch
    /\ packages[last.pk].status = StatusText("Pending")

\* C14: the status or receiver_agent of an existing Package changes only in
\* a MarkDelivered of that Package by an agent at its destination branch,
\* and only while the Package is still as created (not yet delivered).
C14_DeliveryFieldsChangeOnce ==
    [][\A p \in LivePkgs :
          ( /\ packages'[p] # NoRow
            /\ \/ packages'[p].status # packages[p].status
               \/ packages'[p].receiver_agent # packages[p].receiver_agent )
          => /\ last'.op = "mark_delivered"
             /\ last'.pk = p
             /\ IsAgent(last'.user)
             /\ users[last'.user].branch = packages[p].destination_branch
             /\ packages[p].status = StatusText("Pending")]_vars

\* C15: in any interleaving of requests, a Package whose status is that of
\* a delivered Package keeps it for as long as the Package exists.
C15_DeliveredStaysDelivered ==
    [][\A p \in LivePkgs :
          (packages[p].status = StatusText("Delivered") /\ packages'[p] # NoRow)
          => packages'[p].status = StatusText("Delivered")]_vars

\* C16: no two Packages share a tracking_number; no step changes the
\* tracking_number of a Package that stays; and an intake whose generated
\* tracking_number is that of an existing Package answers 400 (not a server
\* error) and leaves the Package and Ticket tables as they were.
C16_TrackingUniqueImmutable ==
    [][/\ \A p, q \in LivePkgs' :
            p # q => packages'[p].tracking_number # packages'[q].tracking_number
       /\ \A p \in LivePkgs :
            packages'[p] # NoRow
                => packages'[p].tracking_number = packages[p].tracking_number
       /\ ( /\ last'.op = "intake"
            /\ last'.codes # <<>>
            /\ \E p \in LivePkgs : packages[p].tracking_number = last'.codes[1] )
          => (last'.result.code = 400 /\ RowsUnchanged)]_vars

\* C16 witness: an intake drew the tracking_number of an existing Package
\* and was answered 400 keyed "error"; the other code is still unused.
C16_Witness ==
    /\ last.op = "intake"
    /\ last.codes # <<>>
    /\ last.result = InvalidInput({"error"})
    /\ Cardinality(LivePkgs) = 1
    /\ \E p \in LivePkgs : packages[p].tracking_number = last.codes[1]

\* The Packages the rule table gives requester u; the first matching row
\* of the table applies.
TablePackages(u) ==
    IF ~IsAuthenticated(u) THEN {}
    ELSE IF users[u].role = "agent"
    THEN {p \in LivePkgs : \/ packages[p].sender_agent = u
                           \/ packages[p].receiver_agent = u
                           \/ packages[p].destination_branch = users[u].branch}
    ELSE IF users[u].role = "branch admin"
    THEN {p \in LivePkgs : \/ packages[p].origin_branch = users[u].branch
                           \/ packages[p].destination_branch = users[u].branch}
    ELSE IF users[u].role = "company admin"
    THEN {p \in LivePkgs :
             \/ BranchCompany(packages[p].origin_branch) = users[u].company
             \/ BranchCompany(packages[p].destination_branch) = users[u].company}
    ELSE IF users[u].role = "system admin" \/ users[u].is_superuser THEN LivePkgs
    ELSE {}

\* C17: for every requester, VisiblePackages is exactly the set the rule
\* table gives, and a list request is answered with that set.
C17_PackageScoping ==
    /\ \A u \in UserIds : VisiblePackages(u) = TablePackages(u)
    /\ last.op = "package_list" => last.rows = TablePackages(last.user)

\* The Tickets the rule table gives requester u; the first matching row of
\* the table applies.
TableTickets(u) ==
    IF ~IsAuthenticated(u) THEN {}
    ELSE IF users[u].role = "agent"
    THEN {t \in LiveTkts : tickets[t].company = BranchCompany(users[u].branch)}
    ELSE IF users[u].role = "branch admin"
    THEN {t \in LiveTkts : tickets[t].branch = users[u].branch}
    ELSE IF users[u].role = "company admin"
    THEN {t \in LiveTkts : tickets[t].company = users[u].company}
    ELSE IF users[u].role = "system admin" \/ users[u].is_superuser THEN LiveTkts
    ELSE {}

\* C18: for every requester, VisibleTickets is exactly the set the rule
\* table gives, and a list request is answered with that set.
C18_TicketScoping ==
    /\ \A u \in UserIds : VisibleTickets(u) = TableTickets(u)
    /\ last.op = "ticket_list" => last.rows = TableTickets(last.user)

\* C19: UpdateTicketStatus on a Ticket the requester can address, with a
\* new status other than "sent", "received" or "delivered" ("pending",
\* "canceled" and a missing value included), answers 400 keyed status and
\* leaves the Ticket as it was; with one of the three it succeeds and the
\* Ticket's status is exactly that value, nothing else of it changed.
C19_TicketStatusValidated ==
    [][( /\ last'.op = "update_status"
         /\ last'.pk \in VisibleTickets(last'.user) )
          => IF last'.req.status \in {"sent", "received", "delivered"}
             THEN /\ last'.result = Ok
                  /\ tickets' = [tickets EXCEPT ![last'.pk].status = last'.req.status]
             ELSE /\ last'.result = InvalidInput({"status"})
                  /\ tickets' = tickets]_vars

\* C19 witness: a request for "pending" was answered 400 keyed status and
\* the Ticket is still "sent".
C19_Witness ==
    /\ last.op = "update_status"
    /\ last.req.status = "pending"
    /\ last.result = InvalidInput({"status"})
    /\ last.pk \in LiveTkts
    /\ tickets[last.pk].status = "sent"

\* C20: an UpdateTicketStatus request, whatever its ticket and new status,
\* leaves every Package, every other Ticket and the status lookup rows as
\* they were, and of its own Ticket changes at most the status.
C20_TicketStatusFrame ==
    [][last'.op = "update_status" =>
          /\ packages' = packages
          /\ statuses' = statuses
          /\ \A t \in TktIds :
                \/ tickets'[t] = tickets[t]
                \/ /\ t = last'.pk
                   /\ t \in LiveTkts
                   /\ tickets'[t] = [tickets[t] EXCEPT !.status = tickets'[t].status]]_vars

\* C20 witness: a Ticket was set to "delivered" while its Package still has
\* the status it was created with and no receiver_agent, another Ticket
\* being present.
C20_Witness ==
    /\ last.op = "update_status"
    /\ last.result = Ok
    /\ last.pk \in LiveTkts
    /\ tickets[last.pk].status = "delivered"
    /\ tickets[last.pk].package \in LivePkgs
    /\ packages[tickets[last.pk].package].status = StatusText("Pending")
    /\ packages[tickets[last.pk].package].receiver_agent = None
    /\ Cardinality(LiveTkts) = 2

StatusRank(s) ==
    IF s = "pending" THEN 0
    ELSE IF s = "sent" THEN 1
    ELSE IF s = "received" THEN 2
    ELSE 3

\* C21: over intake, UpdateTicketStatus and MarkDelivered, no step moves a
\* Ticket to a status earlier than the one it has (sent, then received,
\* then delivered), and in every state the Ticket of a Package that
\* MarkDelivered has marked Delivered is "delivered".
C21_TicketStatusForward ==
    [][/\ \A t \in LiveTkts :
            StatusRank(tickets'[t].status) >= StatusRank(tickets[t].status)
       /\ \A t \in TktIds :
            ( /\ tickets'[t] # NoRow
              /\ packages'[tickets'[t].package] # NoRow
              /\ packages'[tickets'[t].package].status = StatusText("Delivered") )
              => tickets'[t].status = "delivered"]_vars

\* C22: with the get_or_create of a PackageStatus name run as a SELECT and
\* an INSERT that other requests may come between, there is never more
\* than one row of a name, and no intake or MarkDelivered that has passed
\* its checks, racing or later, fails on finding several rows of its name.
C22_OnePackageStatusPerName ==
    [][/\ \A n \in StatusNames : statuses'[n] <= 1
       /\ ( /\ last' # last
            /\ last'.op = "intake"
            /\ IntakeChecks(last'.user, last'.req, last'.now) = Created
            /\ lookups' = lookups )
            => GetOrCreateOutcome("Pending") # "multiple"
       /\ ( /\ last' # last
            /\ last'.op = "mark_delivered"
            /\ last'.result = ServerError )
            => GetOrCreateOutcome("Delivered") # "multiple"]_vars

\* C23: an UpdateTicketStatus request for a ticket outside the set the rule
\* table gives its requester is answered not-found and leaves every Ticket
\* as it was.
C23_OnlyVisibleTicketsChange ==
    [][( /\ last'.op = "update_status"
         /\ last'.pk \notin TableTickets(last'.user) )
          => /\ last'.result = NotFound
             /\ tickets' = tickets]_vars

====
